---- MODULE Spec2Model ----
(***************************************************************************)
(* Model of the trivia API backend (flaskr/__init__.py).                   *)
(*                                                                         *)
(* State: the Question table, the Category table, the id sequence of the   *)
(* Question table, and the last request/response pair.  One action per     *)
(* route.  Strings are sequences of one-character strings, JSON objects    *)
(* are records with a "keys"/"has" set naming the members that are         *)
(* present, exceptions are the "exc" member of a handler's outcome.        *)
(***************************************************************************)
EXTENDS Integers, Sequences, FiniteSets, TLC

VARIABLES questions, categories, nextId, req, resp

vars == <<questions, categories, nextId, req, resp>>

(***************************************************************************)
(* Program constant and bounds.                                            *)
(***************************************************************************)
QUESTIONS_PER_PAGE == 10

\* Largest id the Question table hands out under Spec.
MaxId == 2
\* Page numbers requested range over -MaxPage .. MaxPage.
MaxPage == 2
\* Number of questions the table holds initially under SpecPages.
SeedSize == 10
\* Number of questions created on top of the seed under SpecPages.
MaxAdds == 2

(***************************************************************************)
(* Strings.                                                                *)
(***************************************************************************)
LowerChar(c) ==
    CASE c = "A" -> "a"
      [] c = "B" -> "b"
      [] c = "S" -> "s"
      [] OTHER -> c

\* str.lower()
Lower(s) == [i \in 1..Len(s) |-> LowerChar(s[i])]

\* SQL LIKE: % matches any run of characters, _ matches any one character.
RECURSIVE LikeMatch(_, _)
LikeMatch(pat, s) ==
    IF pat = <<>> THEN s = <<>>
    ELSE IF Head(pat) = "%"
         THEN LikeMatch(Tail(pat), s) \/ (s # <<>> /\ LikeMatch(pat, Tail(s)))
    ELSE IF s = <<>> THEN FALSE
    ELSE IF Head(pat) = "_" THEN LikeMatch(Tail(pat), Tail(s))
    ELSE Head(pat) = Head(s) /\ LikeMatch(Tail(pat), Tail(s))

\* column.ilike(pattern): LIKE on the lower-cased operands.
ILike(s, pat) == LikeMatch(Lower(pat), Lower(s))

\* The pattern f'%{search_query}%'.
SearchPattern(search_query) == <<"%">> \o search_query \o <<"%">>

(***************************************************************************)
(* Python list operations.                                                 *)
(***************************************************************************)
Max2(a, b) == IF a >= b THEN a ELSE b
Min2(a, b) == IF a <= b THEN a ELSE b

\* An index of a slice, as Python clamps it to the list.
SliceIndex(i, n) == IF i < 0 THEN Max2(n + i, 0) ELSE Min2(i, n)

\* s[start:end]
PySlice(s, start, end) ==
    SubSeq(s, SliceIndex(start, Len(s)) + 1, SliceIndex(end, Len(s)))

\* Every order a set of rows can be listed in.
Orders(S) ==
    {f \in [1..Cardinality(S) -> S] : \A x \in S : \E i \in DOMAIN f : f[i] = x}

(***************************************************************************)
(* Persistence layer (models.py).                                          *)
(***************************************************************************)
\* Question.format()
Format(q) ==
    [id |-> q.id, question |-> q.question, answer |-> q.answer,
     category |-> q.category, difficulty |-> q.difficulty]

FormatAll(rows) == [i \in 1..Len(rows) |-> Format(rows[i])]

\* Question.query.order_by(Question.id).all()
RECURSIVE OrderById(_)
OrderById(S) ==
    IF S = {} THEN <<>>
    ELSE LET first == CHOOSE q \in S : \A r \in S : q.id <= r.id
         IN  <<first>> \o OrderById(S \ {first})

\* Question.query.get(question_id): the set holding the row, or empty for None.
GetById(table, id) == {q \in table : q.id = id}

\* Question(...).insert(): the table assigns the next id of its sequence.
Insert(table, id, question, answer, category, difficulty) ==
    table \cup {[id |-> id, question |-> question, answer |-> answer,
                 category |-> category, difficulty |-> difficulty]}

\* question.delete(): the row leaves the table.
Delete(table, question) == table \ question

\* {cat.id: cat.type.lower() for cat in Category.query.all()}
CategoryMap(cats) == [c \in DOMAIN cats |-> Lower(cats[c])]

(***************************************************************************)
(* Responses and outcomes.                                                 *)
(***************************************************************************)
NoQuestion ==
    [id |-> 0, question |-> <<>>, answer |-> <<>>, category |-> 0,
     difficulty |-> 0]

\* A JSON body; "keys" names the members it has.
NoBody ==
    [keys |-> {}, success |-> FALSE, message |-> "", questions |-> <<>>,
     total_questions |-> 0, current_category |-> <<>>, categories |-> <<>>,
     question |-> [isString |-> TRUE, value |-> NoQuestion], question_id |-> 0]

\* A handler's outcome: a body returned, or an exception raised.
Return(body, table, id) ==
    [exc |-> "none", body |-> body, table |-> table, nextId |-> id]

Raise(e, table, id) ==
    [exc |-> e, body |-> NoBody, table |-> table, nextId |-> id]

\* abort(code)
Abort(code) == IF code = 404 THEN "HTTP404" ELSE "HTTP422"

not_found ==
    [status |-> 404,
     body |-> [NoBody EXCEPT !.keys = {"success", "message"},
                             !.message = "Not Found"]]

unprocessable ==
    [status |-> 422,
     body |-> [NoBody EXCEPT !.keys = {"success", "message"},
                             !.message = "Unprocessable"]]

\* What the framework sends for a handler's outcome: the returned body, the
\* registered error handler of an aborted request, or its own 500 page for
\* any other exception.
Respond(outcome) ==
    CASE outcome.exc = "none" -> [status |-> 200, body |-> outcome.body]
      [] outcome.exc = "HTTP404" -> not_found
      [] outcome.exc = "HTTP422" -> unprocessable
      [] OTHER -> [status |-> 500, body |-> NoBody]

(***************************************************************************)
(* get_common_category                                                     *)
(***************************************************************************)
Count(c, qs) == Cardinality({i \in 1..Len(qs) : qs[i].category = c})

\* Counter(...).most_common(1)[0][0]: the most frequent category, the one
\* seen first among equally frequent ones.
MostCommon(qs) ==
    LET best == CHOOSE i \in 1..Len(qs) :
                  /\ \A j \in 1..Len(qs) :
                        Count(qs[j].category, qs) <= Count(qs[i].category, qs)
                  /\ \A j \in 1..(i - 1) :
                        Count(qs[j].category, qs) < Count(qs[i].category, qs)
    IN  qs[best].category

get_common_category(cats, qs) ==
    IF qs = <<>> THEN [exc |-> "none", value |-> <<>>]
    ELSE IF MostCommon(qs) \in DOMAIN cats
         THEN [exc |-> "none", value |-> cats[MostCommon(qs)]]
         ELSE [exc |-> "KeyError", value |-> <<>>]

(***************************************************************************)
(* Requests.                                                               *)
(***************************************************************************)
\* A request: the route, the path and query arguments, and the members of
\* the JSON body; "has" names the arguments and members that are present.
NoRequest ==
    [route |-> "none", has |-> {}, page |-> 1, id |-> 0, question |-> <<>>,
     answer |-> <<>>, category |-> 0, difficulty |-> 0, search_term |-> <<>>,
     previous_questions |-> {}]

\* Whether a handler's try block ended in an exception: "except Exception"
\* catches the exceptions raised by abort() as well as any other.
Except(outcome, code) ==
    IF outcome.exc = "none" THEN outcome
    ELSE Raise(Abort(code), outcome.table, outcome.nextId)

(***************************************************************************)
(* Handlers.  Each takes the Question table, the next id of its sequence,  *)
(* the Category table and the request, and gives the outcome.  "order" is  *)
(* the order in which the database lists the rows of an unordered query,   *)
(* and for the quiz the order random.shuffle leaves them in.               *)
(***************************************************************************)
\* GET /categories
get_available_categories(table, id, cats) ==
    LET cmap == CategoryMap(cats)
    IN  IF DOMAIN cmap # {}
        THEN Return([NoBody EXCEPT !.keys = {"success", "categories"},
                                   !.success = TRUE,
                                   !.categories = cmap], table, id)
        ELSE Raise(Abort(404), table, id)

\* get_questions without the abort on an empty page.
get_questions_without_abort(table, id, cats, r) ==
    LET page == IF "page" \in r.has THEN r.page ELSE 1
        all == FormatAll(OrderById(table))
        cmap == CategoryMap(cats)
        start == (page - 1) * QUESTIONS_PER_PAGE
        end == start + QUESTIONS_PER_PAGE
        selected_questions == PySlice(all, start, end)
        common == get_common_category(cmap, selected_questions)
    IN  IF common.exc # "none" THEN Raise(common.exc, table, id)
        ELSE Return([NoBody EXCEPT
                        !.keys = {"success", "questions", "total_questions",
                                  "categories", "current_category"},
                        !.success = TRUE,
                        !.questions = selected_questions,
                        !.total_questions = Len(all),
                        !.categories = cmap,
                        !.current_category = common.value], table, id)

\* get_questions rejecting every page number below 1.
get_questions_validating_page(table, id, cats, r) ==
    LET page == IF "page" \in r.has THEN r.page ELSE 1
        all == FormatAll(OrderById(table))
        cmap == CategoryMap(cats)
        start == (page - 1) * QUESTIONS_PER_PAGE
        end == start + QUESTIONS_PER_PAGE
        selected_questions == PySlice(all, start, end)
        common == get_common_category(cmap, selected_questions)
    IN  IF page < 1 \/ Len(selected_questions) = 0
        THEN Raise(Abort(404), table, id)
        ELSE IF common.exc # "none" THEN Raise(common.exc, table, id)
        ELSE Return([NoBody EXCEPT
                        !.keys = {"success", "questions", "total_questions",
                                  "categories", "current_category"},
                        !.success = TRUE,
                        !.questions = selected_questions,
                        !.total_questions = Len(all),
                        !.categories = cmap,
                        !.current_category = common.value], table, id)

\* GET /questions
get_questions(table, id, cats, r) ==
    LET page == IF "page" \in r.has THEN r.page ELSE 1
        all == FormatAll(OrderById(table))
        cmap == CategoryMap(cats)
        start == (page - 1) * QUESTIONS_PER_PAGE
        end == start + QUESTIONS_PER_PAGE
        selected_questions == PySlice(all, start, end)
        common == get_common_category(cmap, selected_questions)
    IN  IF Len(selected_questions) = 0 THEN Raise(Abort(404), table, id)
        ELSE IF common.exc # "none" THEN Raise(common.exc, table, id)
        ELSE Return([NoBody EXCEPT
                        !.keys = {"success", "questions", "total_questions",
                                  "categories", "current_category"},
                        !.success = TRUE,
                        !.questions = selected_questions,
                        !.total_questions = Len(all),
                        !.categories = cmap,
                        !.current_category = common.value], table, id)

\* delete_question answering success without deleting the row.
delete_question_keeping_row(table, id, cats, r) ==
    LET question == GetById(table, r.id)
        tried ==
            IF question = {} THEN Raise(Abort(404), table, id)
            ELSE Return([NoBody EXCEPT !.keys = {"success", "question_id"},
                                       !.success = TRUE,
                                       !.question_id = r.id],
                        table, id)
    IN  Except(tried, 422)

\* delete_question without its except clause.
delete_question_uncaught(table, id, cats, r) ==
    LET question == GetById(table, r.id)
    IN  IF question = {} THEN Raise(Abort(404), table, id)
        ELSE Return([NoBody EXCEPT !.keys = {"success", "question_id"},
                                   !.success = TRUE,
                                   !.question_id = r.id],
                    Delete(table, question), id)

\* DELETE /questions/<question_id>
delete_question(table, id, cats, r) ==
    LET question == GetById(table, r.id)
        tried ==
            IF question = {} THEN Raise(Abort(404), table, id)
            ELSE Return([NoBody EXCEPT !.keys = {"success", "question_id"},
                                       !.success = TRUE,
                                       !.question_id = r.id],
                        Delete(table, question), id)
    IN  Except(tried, 422)

\* add_question without the two assertions.
add_question_unchecked(table, id, cats, r) ==
    LET tried ==
            IF "question" \notin r.has THEN Raise("KeyError", table, id)
            ELSE IF "answer" \notin r.has THEN Raise("KeyError", table, id)
            ELSE IF "category" \notin r.has THEN Raise("KeyError", table, id)
            ELSE IF "difficulty" \notin r.has THEN Raise("KeyError", table, id)
            ELSE Return([NoBody EXCEPT !.keys = {"success"}, !.success = TRUE],
                        Insert(table, id, r.question, r.answer, r.category,
                               r.difficulty),
                        id + 1)
    IN  Except(tried, 422)

\* POST /questions
add_question(table, id, cats, r) ==
    LET tried ==
            IF "question" \notin r.has THEN Raise("KeyError", table, id)
            ELSE IF r.question = <<>> THEN Raise("AssertionError", table, id)
            ELSE IF "answer" \notin r.has THEN Raise("KeyError", table, id)
            ELSE IF r.answer = <<>> THEN Raise("AssertionError", table, id)
            ELSE IF "category" \notin r.has THEN Raise("KeyError", table, id)
            ELSE IF "difficulty" \notin r.has THEN Raise("KeyError", table, id)
            ELSE Return([NoBody EXCEPT !.keys = {"success"}, !.success = TRUE],
                        Insert(table, id, r.question, r.answer, r.category,
                               r.difficulty),
                        id + 1)
    IN  Except(tried, 422)

\* POST /search
query_questions(table, id, cats, r, order) ==
    LET search_query == r.search_term
        filtered_questions ==
            FormatAll(SelectSeq(order,
                LAMBDA q : ILike(q.question, SearchPattern(search_query))))
        cmap == CategoryMap(cats)
        common == get_common_category(cmap, filtered_questions)
        tried ==
            IF "search_term" \notin r.has THEN Raise("KeyError", table, id)
            ELSE IF common.exc # "none" THEN Raise(common.exc, table, id)
            ELSE Return([NoBody EXCEPT
                            !.keys = {"success", "questions", "total_questions",
                                      "current_category"},
                            !.success = TRUE,
                            !.questions = filtered_questions,
                            !.total_questions = Len(filtered_questions),
                            !.current_category = common.value], table, id)
    IN  Except(tried, 422)

\* get_questions_by_category computing current_category by frequency, as the
\* other listing routes do.
get_questions_by_category_common(table, id, cats, r, order) ==
    LET category_id == r.id
        filtered_questions ==
            FormatAll(SelectSeq(order, LAMBDA q : q.category = category_id))
        cmap == CategoryMap(cats)
        common == get_common_category(cmap, filtered_questions)
        tried ==
            IF common.exc # "none" THEN Raise(common.exc, table, id)
            ELSE Return([NoBody EXCEPT
                            !.keys = {"success", "questions", "total_questions",
                                      "current_category"},
                            !.success = TRUE,
                            !.questions = filtered_questions,
                            !.total_questions = Len(filtered_questions),
                            !.current_category = common.value], table, id)
    IN  Except(tried, 404)

\* GET /categories/<category_id>/questions
get_questions_by_category(table, id, cats, r, order) ==
    LET category_id == r.id
        filtered_questions ==
            FormatAll(SelectSeq(order, LAMBDA q : q.category = category_id))
        cmap == CategoryMap(cats)
        tried ==
            IF category_id \notin DOMAIN cmap THEN Raise("KeyError", table, id)
            ELSE Return([NoBody EXCEPT
                            !.keys = {"success", "questions", "total_questions",
                                      "current_category"},
                            !.success = TRUE,
                            !.questions = filtered_questions,
                            !.total_questions = Len(filtered_questions),
                            !.current_category = cmap[category_id]], table, id)
    IN  Except(tried, 404)

\* quiz returning the first shuffled candidate, seen or not.
quiz_ignoring_previous(table, id, cats, r, order) ==
    LET category_id == r.category
        category_questions ==
            IF category_id = 0 THEN order
            ELSE SelectSeq(order, LAMBDA q : q.category = category_id)
        tried ==
            IF "previous_questions" \notin r.has THEN Raise("KeyError", table, id)
            ELSE IF "quiz_category" \notin r.has THEN Raise("KeyError", table, id)
            ELSE IF "id" \notin r.has THEN Raise("KeyError", table, id)
            ELSE IF category_questions # <<>>
            THEN Return([NoBody EXCEPT
                            !.keys = {"success", "question"},
                            !.success = TRUE,
                            !.question = [isString |-> FALSE,
                                          value |-> Format(Head(category_questions))]],
                        table, id)
            ELSE Return([NoBody EXCEPT
                            !.keys = {"success", "question"},
                            !.success = TRUE,
                            !.question = [isString |-> TRUE,
                                          value |-> NoQuestion]], table, id)
    IN  Except(tried, 422)

\* POST /quizzes
quiz(table, id, cats, r, order) ==
    LET previous_questions == r.previous_questions
        category_id == r.category
        category_questions ==
            IF category_id = 0 THEN order
            ELSE SelectSeq(order, LAMBDA q : q.category = category_id)
        unseen ==
            SelectSeq(category_questions,
                      LAMBDA q : q.id \notin previous_questions)
        tried ==
            IF "previous_questions" \notin r.has THEN Raise("KeyError", table, id)
            ELSE IF "quiz_category" \notin r.has THEN Raise("KeyError", table, id)
            ELSE IF "id" \notin r.has THEN Raise("KeyError", table, id)
            ELSE IF unseen # <<>>
            THEN Return([NoBody EXCEPT
                            !.keys = {"success", "question"},
                            !.success = TRUE,
                            !.question = [isString |-> FALSE,
                                          value |-> Format(Head(unseen))]],
                        table, id)
            ELSE Return([NoBody EXCEPT
                            !.keys = {"success", "question"},
                            !.success = TRUE,
                            !.question = [isString |-> TRUE,
                                          value |-> NoQuestion]], table, id)
    IN  Except(tried, 422)

(***************************************************************************)
(* Inputs.                                                                 *)
(***************************************************************************)
Text1 == <<"A", "b">>
Text2 == <<"b">>
Answer1 == <<"x">>

\* The Category table: empty, or two categories.
NoCategories == <<>>
TwoCategories == (1 :> <<"S", "c">>) @@ (2 :> <<"A", "r", "t">>)

\* Category id 3 is in no Category table.
FullBody(question, answer, category) ==
    [NoRequest EXCEPT !.route = "POST /questions",
                      !.has = {"question", "answer", "category", "difficulty"},
                      !.question = question, !.answer = answer,
                      !.category = category, !.difficulty = 1]

ValidBodies == {FullBody(t, Answer1, c) : t \in {Text1, Text2}, c \in {1, 3}}

\* Bodies lacking one of the four members, or with an empty text.
InvalidBodies ==
    {[FullBody(Text1, Answer1, 1) EXCEPT !.has = @ \ {k}] :
        k \in {"question", "answer", "category", "difficulty"}}
    \cup {FullBody(<<>>, Answer1, 1), FullBody(Text1, <<>>, 1)}

Bodies == ValidBodies \cup InvalidBodies

PageBodies ==
    {FullBody(Text1, Answer1, 1), FullBody(Text2, Answer1, 3),
     FullBody(<<>>, Answer1, 1)}

Pages == (0 - MaxPage)..MaxPage

SearchTerms == {<<"a">>, <<"A">>, <<"_">>, <<"a", "a">>, <<>>}

QuizBodyKeys == {"previous_questions", "quiz_category", "id"}

\* The question the table holds initially under SpecPages at id i.
Seed(i) ==
    [id |-> i, question |-> IF i % 2 = 0 THEN Text1 ELSE Text2,
     answer |-> Answer1, category |-> 1 + (i % 2), difficulty |-> 1]

(***************************************************************************)
(* Actions: one request served, from arrival to response.                  *)
(***************************************************************************)
Serve(r, outcome) ==
    /\ req' = r
    /\ resp' = Respond(outcome)
    /\ questions' = outcome.table
    /\ nextId' = outcome.nextId
    /\ UNCHANGED categories

GetCategories ==
    Serve([NoRequest EXCEPT !.route = "GET /categories"],
          get_available_categories(questions, nextId, categories))

GetQuestionsOf(r) ==
    Serve(r, get_questions(questions, nextId, categories, r))

GetQuestions ==
    \/ \E p \in Pages :
          GetQuestionsOf([NoRequest EXCEPT !.route = "GET /questions",
                                           !.has = {"page"}, !.page = p])
    \/ GetQuestionsOf([NoRequest EXCEPT !.route = "GET /questions"])

DeleteQuestionOf(i) ==
    LET r == [NoRequest EXCEPT !.route = "DELETE /questions", !.id = i]
    IN  Serve(r, delete_question(questions, nextId, categories, r))

DeleteQuestion == \E i \in 0..(MaxId + 1) : DeleteQuestionOf(i)

AddQuestionOf(r, lastId) ==
    LET outcome == add_question(questions, nextId, categories, r)
    IN  /\ outcome.nextId <= lastId + 1
        /\ Serve(r, outcome)

AddQuestion == \E r \in Bodies : AddQuestionOf(r, MaxId)

QueryQuestions ==
    \E order \in Orders(questions) :
        \/ \E t \in SearchTerms :
              LET r == [NoRequest EXCEPT !.route = "POST /search",
                                         !.has = {"search_term"},
                                         !.search_term = t]
              IN  Serve(r, query_questions(questions, nextId, categories, r,
                                           order))
        \/ LET r == [NoRequest EXCEPT !.route = "POST /search"]
           IN  Serve(r, query_questions(questions, nextId, categories, r,
                                        order))

GetQuestionsByCategory ==
    \E order \in Orders(questions), c \in 0..3 :
        LET r == [NoRequest EXCEPT !.route = "GET /categories/questions",
                                   !.id = c]
        IN  Serve(r, get_questions_by_category(questions, nextId, categories,
                                               r, order))

Quiz ==
    \E order \in Orders(questions) :
        \/ \E P \in SUBSET (1..MaxId), c \in 0..2 :
              LET r == [NoRequest EXCEPT !.route = "POST /quizzes",
                                         !.has = QuizBodyKeys,
                                         !.previous_questions = P,
                                         !.category = c]
              IN  Serve(r, quiz(questions, nextId, categories, r, order))
        \/ \E k \in QuizBodyKeys :
              LET r == [NoRequest EXCEPT !.route = "POST /quizzes",
                                         !.has = QuizBodyKeys \ {k}]
              IN  Serve(r, quiz(questions, nextId, categories, r, order))

NoResponse == [status |-> 0, body |-> NoBody]

Init ==
    /\ questions = {}
    /\ nextId = 1
    /\ categories \in {NoCategories, TwoCategories}
    /\ req = NoRequest
    /\ resp = NoResponse

Next ==
    \/ GetCategories
    \/ GetQuestions
    \/ DeleteQuestion
    \/ AddQuestion
    \/ QueryQuestions
    \/ GetQuestionsByCategory
    \/ Quiz

Spec == Init /\ [][Next]_vars

(***************************************************************************)
(* The listing routes over a table of more than one page.                  *)
(***************************************************************************)
\* At most MaxAdds questions are created on top of the initial table, which
\* is empty (ids from 1) or seeded (ids from SeedSize + 1).
AddQuestionToPages ==
    \E r \in PageBodies, base \in {0, SeedSize} :
        /\ nextId \in (base + 1)..(base + MaxAdds)
        /\ AddQuestionOf(r, base + MaxAdds)

DeleteQuestionFromPages ==
    \E i \in {0, 1, SeedSize, SeedSize + 1} : DeleteQuestionOf(i)

InitPages ==
    /\ \E n \in {0, SeedSize} :
          /\ questions = {Seed(i) : i \in 1..n}
          /\ nextId = n + 1
    /\ categories = TwoCategories
    /\ req = NoRequest
    /\ resp = NoResponse

NextPages ==
    \/ GetQuestions
    \/ DeleteQuestionFromPages
    \/ AddQuestionToPages

SpecPages == InitPages /\ [][NextPages]_vars

(***************************************************************************)
(* Properties.                                                             *)
(***************************************************************************)
\* The number of stored questions.
N == Cardinality(questions)

\* The page a GET /questions request asks for.
RequestedPage(r) == IF "page" \in r.has THEN r.page ELSE 1

\* The formatted question at 0-based position k of the stored questions
\* ordered by id ascending: the one with exactly k smaller ids.
AtPosition(table, k) ==
    Format(CHOOSE q \in table : Cardinality({r \in table : r.id < q.id}) = k)

\* The formatted questions at positions from .. to of the id-ordered list.
Positions(table, from, to) ==
    [i \in 1..(to - from + 1) |-> AtPosition(table, from + i - 1)]

\* The elements of a list.
Elements(seq) == {seq[i] : i \in 1..Len(seq)}

\* Whether t occurs in s as a substring, letter case ignored.
ContainsIgnoringCase(s, t) ==
    \E i \in 0..(Len(s) - Len(t)) :
        Lower(SubSeq(s, i + 1, i + Len(t))) = Lower(t)

ErrorBody(r) ==
    r.body.keys = {"success", "message"} /\ r.body.success = FALSE

\* C1: GET /questions?page=p with 1 <= p <= ceil(N/10) returns 200 with
\* exactly the questions at positions (p-1)*10 .. min(p*10, N)-1 of the
\* id-ordered list, and total_questions = N.
C1_PageOfTen ==
    (req.route = "GET /questions"
       /\ RequestedPage(req) >= 1
       /\ (RequestedPage(req) - 1) * 10 < N)
    => /\ resp.status = 200
       /\ resp.body.questions =
            Positions(questions, (RequestedPage(req) - 1) * 10,
                      Min2(RequestedPage(req) * 10, N) - 1)
       /\ resp.body.total_questions = N

\* C2: every response of every route is a success, or a 404 / 422 rendered
\* as {success: false, message}; no failure escapes as another status.
C2_OnlyTwoErrorKinds ==
    req.route # "none"
    => /\ resp.status \in {200, 404, 422}
       /\ resp.status \in {404, 422} => ErrorBody(resp)
       /\ resp.status = 200 => resp.body.success

\* C3: POST /quizzes with previous_questions P and category c answers 200;
\* when some candidate has an id outside P the returned question is such a
\* candidate, whatever the shuffle; the question is the empty string exactly
\* when every candidate's id is in P.
C3_QuizUnseen ==
    (req.route = "POST /quizzes" /\ req.has = QuizBodyKeys)
    => LET candidates ==
               IF req.category = 0 THEN questions
               ELSE {q \in questions : q.category = req.category}
           unseen == {q \in candidates : q.id \notin req.previous_questions}
       IN  /\ resp.status = 200
           /\ resp.body.success
           /\ "question" \in resp.body.keys
           /\ unseen # {} =>
                 /\ ~resp.body.question.isString
                 /\ resp.body.question.value \in {Format(q) : q \in unseen}
           /\ resp.body.question.isString <=> unseen = {}

C3_Witness ==
    /\ req.route = "POST /quizzes"
    /\ req.has = QuizBodyKeys
    /\ req.category = 0
    /\ \E q \in questions : q.id \in req.previous_questions
    /\ \E q \in questions : q.id \notin req.previous_questions
    /\ resp.status = 200
    /\ ~resp.body.question.isString

\* The response to GET /questions?page=p over a table.
ListingOf(table, p) ==
    Respond(get_questions(table, nextId, categories,
                          [NoRequest EXCEPT !.route = "GET /questions",
                                            !.has = {"page"}, !.page = p]))

\* C4: DELETE /questions/{id} of a stored id removes that question and no
\* other; no page of a GET /questions issued afterwards holds the id, and
\* its total_questions is one less than that of a GET issued before.
C4_DeleteRemoves ==
    [][(req'.route = "DELETE /questions" /\ GetById(questions, req'.id) # {})
       => /\ resp'.status = 200
          /\ questions' = {q \in questions : q.id # req'.id}
          /\ \A p \in Pages :
                ListingOf(questions', p).status = 200
                => /\ \A q \in Elements(ListingOf(questions', p).body.questions) :
                         q.id # req'.id
                   /\ \A b \in Pages :
                         ListingOf(questions, b).status = 200
                         => ListingOf(questions', p).body.total_questions
                              = ListingOf(questions, b).body.total_questions - 1
      ]_vars

C4_Witness ==
    /\ req.route = "DELETE /questions"
    /\ resp.status = 200
    /\ resp.body.question_id = req.id
    /\ N > QUESTIONS_PER_PAGE
    /\ ListingOf(questions, 1).status = 200
    /\ ListingOf(questions, 2).status = 200

\* C5: DELETE /questions/{id} of an id that is not stored answers 422 and
\* leaves the stored questions unchanged; so does the second of two deletes
\* of the same id in a row.
C5_DeleteMissing ==
    [][/\ (req'.route = "DELETE /questions" /\ GetById(questions, req'.id) = {})
          => (resp'.status = 422 /\ ErrorBody(resp') /\ questions' = questions)
       /\ (req.route = "DELETE /questions" /\ resp.status = 200
             /\ req'.route = "DELETE /questions" /\ req'.id = req.id)
          => (resp'.status = 422 /\ questions' = questions)
      ]_vars

C5_Witness ==
    /\ req.route = "DELETE /questions"
    /\ req.id \in 1..(nextId - 1)
    /\ resp.status = 422
    /\ questions # {}

\* C6: POST /questions with an empty question, an empty answer or without
\* one of the four required members answers 422 and stores nothing.
C6_InvalidBodyRejected ==
    [][(/\ req'.route = "POST /questions"
        /\ \/ {"question", "answer", "category", "difficulty"} \ req'.has # {}
           \/ req'.question = <<>>
           \/ req'.answer = <<>>)
       => (resp'.status = 422 /\ ErrorBody(resp') /\ questions' = questions)
      ]_vars

C6_Witness ==
    /\ req.route = "POST /questions"
    /\ req.has = {"question", "answer", "category", "difficulty"}
    /\ req.question = <<>>
    /\ resp.status = 422
    /\ questions # {}

\* C7: POST /search with search_term t answers 200 with exactly the stored
\* questions whose text contains t, letter case ignored, for every string t,
\* with total_questions their number; without a match the list is empty and
\* current_category is the empty string.
C7_SearchIsSubstringMatch ==
    (req.route = "POST /search" /\ "search_term" \in req.has)
    => LET matches ==
               {Format(q) : q \in {x \in questions :
                    ContainsIgnoringCase(x.question, req.search_term)}}
       IN  /\ resp.status = 200
           /\ Elements(resp.body.questions) = matches
           /\ Len(resp.body.questions) = Cardinality(matches)
           /\ resp.body.total_questions = Cardinality(matches)
           /\ matches = {} => resp.body.current_category = <<>>

\* C8: GET /categories/{id}/questions answers 404 exactly when id is no key
\* of the category mapping; otherwise 200 with the questions of category id
\* (an empty list is no error), their number, and the category's own
\* lower-cased label as current_category.
C8_ByCategory ==
    req.route = "GET /categories/questions"
    => /\ resp.status = 404 <=> req.id \notin DOMAIN categories
       /\ req.id \in DOMAIN categories =>
             /\ resp.status = 200
             /\ Elements(resp.body.questions)
                  = {Format(q) : q \in {x \in questions : x.category = req.id}}
             /\ Len(resp.body.questions)
                  = Cardinality({x \in questions : x.category = req.id})
             /\ resp.body.total_questions = Len(resp.body.questions)
             /\ resp.body.current_category = Lower(categories[req.id])

C8_Witness ==
    /\ req.route = "GET /categories/questions"
    /\ req.id \in DOMAIN categories
    /\ resp.status = 200
    /\ Len(resp.body.questions) = 1
    /\ N = 2

\* C9: GET /questions?page=p answers 404 for every p >= 1 with
\* (p-1)*10 >= N.
C9_BeyondLastPage ==
    (req.route = "GET /questions"
       /\ RequestedPage(req) >= 1
       /\ (RequestedPage(req) - 1) * 10 >= N)
    => (resp.status = 404 /\ ErrorBody(resp))

C9_Witness ==
    /\ req.route = "GET /questions"
    /\ RequestedPage(req) = 2
    /\ N = 10
    /\ resp.status = 404

\* C10 as stated: GET /questions answers 404 for every page p <= 0 and every
\* number of stored questions.
C10_NonPositivePageNotFound ==
    (req.route = "GET /questions" /\ RequestedPage(req) <= 0)
    => resp.status = 404

\* C10 as amended: page 0 answers 404 for every N; a negative page p answers
\* 404 exactly when N <= 10*|p|, and otherwise its slice is the questions at
\* positions max(N + (p-1)*10, 0) .. N + p*10 - 1 of the id-ordered list,
\* which a successful response carries.
C10_NonPositivePage ==
    (req.route = "GET /questions" /\ RequestedPage(req) <= 0)
    => LET p == RequestedPage(req)
       IN  /\ resp.status = 404 <=> (p = 0 \/ N <= 10 * (0 - p))
           /\ resp.status = 200 =>
                 /\ resp.body.questions =
                      Positions(questions, Max2(N + (p - 1) * 10, 0),
                                N + p * 10 - 1)
                 /\ resp.body.total_questions = N

C10_Witness ==
    /\ req.route = "GET /questions"
    /\ RequestedPage(req) = 0 - 1
    /\ N > 10
    /\ resp.status = 200
    /\ Len(resp.body.questions) >= 1

====
